---------------------------- MODULE Spec2Model ----------------------------
(***************************************************************************)
(* Model of the connection tree provider (DbTreeDataProvider) and of the   *)
(* Elasticsearch statement dialect (EsDialect).                            *)
(*                                                                         *)
(* Three specifications share the variables below:                         *)
(*   SpecDialect  calls on EsDialect instances                             *)
(*   SpecAdd      one run of DbTreeDataProvider.addConnection              *)
(*   SpecNodes    getConnectionNodes / getChildren over the two stores     *)
(***************************************************************************)
EXTENDS Integers, Sequences, FiniteSets, TLC

VARIABLES
    \* --- EsDialect callers ---
    lastCall,             \* the most recent dialect call and its outcome
    \* --- DbTreeDataProvider.addConnection ---
    connectionKey,        \* this.connectionKey of the provider
    pc,                   \* position of the running addConnection
    node,                 \* the node handed to addConnection
    issued,               \* node.indent commands issued so far, in order
    \* --- DbTreeDataProvider.getConnectionNodes / getChildren ---
    globalConnections,    \* globalState.get(connectionKey, {})
    workspaceConnections, \* workspaceState.get(connectionKey, {})
    call,                 \* the most recent tree call and its inputs
    result                \* what that call resolved to

vars == <<lastCall, connectionKey, pc, node, issued,
          globalConnections, workspaceConnections, call, result>>

dialectVars == <<lastCall>>
addVars == <<connectionKey, pc, node, issued>>
nodesVars == <<globalConnections, workspaceConnections, call, result>>

None == "none"

(***************************************************************************)
(* Bounds                                                                  *)
(***************************************************************************)
NumInstances == 2      \* EsDialect instances that callers hold
MaxPageSize == 2       \* page sizes range over -1 .. MaxPageSize
MaxPageIndex == 2      \* page indexes a caller may be on

(***************************************************************************)
(* EsDialect                                                               *)
(***************************************************************************)
\* A string is modelled as the sequence of its tokens; "" is the empty one.
EmptyString == <<>>

\* A method that returns a string hands the caller statement text.
Return(text) == [kind |-> "Generated", text |-> text, error |-> None]

\* throw new Error(message)
Throw(message) == [kind |-> "Thrown", text |-> EmptyString, error |-> message]

variableList ==
    Throw("Method not implemented.")

statusList ==
    Throw("Method not implemented.")

processList ==
    Throw("Method not implemented.")

updateColumn(table, column, type, comment, nullable) ==
    Return(EmptyString)

showDatabases ==
    Return(EmptyString)

showTables(database) ==
    Return(EmptyString)

addColumn(table) ==
    Return(EmptyString)

showColumns(database, table) ==
    Return(EmptyString)

showViews(database) ==
    Return(EmptyString)

showSystemViews(database) ==
    Return(EmptyString)

showUsers ==
    Return(EmptyString)

createUser ==
    Return(EmptyString)

showTriggers(database) ==
    Return(EmptyString)

showProcedures(database) ==
    Return(EmptyString)

showFunctions(database) ==
    Return(EmptyString)

buildPageSql(database, table, pageSize) ==
    Return(EmptyString)

countSql(database, table) ==
    Return(EmptyString)

createDatabase(database) ==
    Return(EmptyString)

truncateDatabase(database) ==
    Return(EmptyString)

renameTable(database, tableName, newName) ==
    Return(EmptyString)

showTableSource(database, table) ==
    Return(EmptyString)

showViewSource(database, table) ==
    Return(EmptyString)

showProcedureSource(database, name) ==
    Return(EmptyString)

showFunctionSource(database, name) ==
    Return(EmptyString)

showTriggerSource(database, name) ==
    Return(EmptyString)

tableTemplate ==
    Return(EmptyString)

viewTemplate ==
    Return(EmptyString)

procedureTemplate ==
    Return(EmptyString)

triggerTemplate ==
    Return(EmptyString)

functionTemplate ==
    Return(EmptyString)

Operations ==
    {"variableList", "statusList", "processList", "updateColumn", "showDatabases",
     "showTables", "addColumn", "showColumns", "showViews", "showSystemViews",
     "showUsers", "createUser", "showTriggers", "showProcedures", "showFunctions",
     "buildPageSql", "countSql", "createDatabase", "truncateDatabase", "renameTable",
     "showTableSource", "showViewSource", "showProcedureSource", "showFunctionSource",
     "showTriggerSource", "tableTemplate", "viewTemplate", "procedureTemplate",
     "triggerTemplate", "functionTemplate"}

\* Argument values callers pass.
Databases == {"", "shop"}
Tables == {"", "orders"}
Names == {"", "audit"}
Columns == {"id"}
Types == {"keyword"}
Comments == {"pk"}
Nullables == {"YES"}
PageSizes == (0 - 1)..MaxPageSize
Instances == 1..NumInstances

Params(op) ==
    CASE op = "variableList" -> <<>>
      [] op = "statusList" -> <<>>
      [] op = "processList" -> <<>>
      [] op = "updateColumn" -> <<"table", "column", "type", "comment", "nullable">>
      [] op = "showDatabases" -> <<>>
      [] op = "showTables" -> <<"database">>
      [] op = "addColumn" -> <<"table">>
      [] op = "showColumns" -> <<"database", "table">>
      [] op = "showViews" -> <<"database">>
      [] op = "showSystemViews" -> <<"database">>
      [] op = "showUsers" -> <<>>
      [] op = "createUser" -> <<>>
      [] op = "showTriggers" -> <<"database">>
      [] op = "showProcedures" -> <<"database">>
      [] op = "showFunctions" -> <<"database">>
      [] op = "buildPageSql" -> <<"database", "table", "pageSize">>
      [] op = "countSql" -> <<"database", "table">>
      [] op = "createDatabase" -> <<"database">>
      [] op = "truncateDatabase" -> <<"database">>
      [] op = "renameTable" -> <<"database", "tableName", "newName">>
      [] op = "showTableSource" -> <<"database", "table">>
      [] op = "showViewSource" -> <<"database", "table">>
      [] op = "showProcedureSource" -> <<"database", "name">>
      [] op = "showFunctionSource" -> <<"database", "name">>
      [] op = "showTriggerSource" -> <<"database", "name">>
      [] op = "tableTemplate" -> <<>>
      [] op = "viewTemplate" -> <<>>
      [] op = "procedureTemplate" -> <<>>
      [] op = "triggerTemplate" -> <<>>
      [] op = "functionTemplate" -> <<>>

EsDialect(op, args) ==
    CASE op = "variableList" -> variableList
      [] op = "statusList" -> statusList
      [] op = "processList" -> processList
      [] op = "updateColumn" -> updateColumn(args.table, args.column, args.type, args.comment, args.nullable)
      [] op = "showDatabases" -> showDatabases
      [] op = "showTables" -> showTables(args.database)
      [] op = "addColumn" -> addColumn(args.table)
      [] op = "showColumns" -> showColumns(args.database, args.table)
      [] op = "showViews" -> showViews(args.database)
      [] op = "showSystemViews" -> showSystemViews(args.database)
      [] op = "showUsers" -> showUsers
      [] op = "createUser" -> createUser
      [] op = "showTriggers" -> showTriggers(args.database)
      [] op = "showProcedures" -> showProcedures(args.database)
      [] op = "showFunctions" -> showFunctions(args.database)
      [] op = "buildPageSql" -> buildPageSql(args.database, args.table, args.pageSize)
      [] op = "countSql" -> countSql(args.database, args.table)
      [] op = "createDatabase" -> createDatabase(args.database)
      [] op = "truncateDatabase" -> truncateDatabase(args.database)
      [] op = "renameTable" -> renameTable(args.database, args.tableName, args.newName)
      [] op = "showTableSource" -> showTableSource(args.database, args.table)
      [] op = "showViewSource" -> showViewSource(args.database, args.table)
      [] op = "showProcedureSource" -> showProcedureSource(args.database, args.name)
      [] op = "showFunctionSource" -> showFunctionSource(args.database, args.name)
      [] op = "showTriggerSource" -> showTriggerSource(args.database, args.name)
      [] op = "tableTemplate" -> tableTemplate
      [] op = "viewTemplate" -> viewTemplate
      [] op = "procedureTemplate" -> procedureTemplate
      [] op = "triggerTemplate" -> triggerTemplate
      [] op = "functionTemplate" -> functionTemplate

\* The argument records a caller can pass to op, one field per parameter.
ArgTuples(op) ==
    CASE Params(op) = <<>> -> {<<>>}
      [] Params(op) = <<"table">> -> [table : Tables]
      [] Params(op) = <<"database">> -> [database : Databases]
      [] Params(op) = <<"database", "table">> -> [database : Databases, table : Tables]
      [] Params(op) = <<"database", "name">> -> [database : Databases, name : Names]
      [] Params(op) = <<"database", "table", "pageSize">> ->
            [database : Databases, table : Tables, pageSize : PageSizes]
      [] Params(op) = <<"database", "tableName", "newName">> ->
            [database : Databases, tableName : Tables, newName : Names]
      [] Params(op) = <<"table", "column", "type", "comment", "nullable">> ->
            [table : Tables, column : Columns, type : Types,
             comment : Comments, nullable : Nullables]

NoCall == [self |-> 0, op |-> None, args |-> <<>>,
           outcome |-> [kind |-> None, text |-> EmptyString, error |-> None]]

\* A caller invokes one operation of one dialect instance.
Invoke ==
    \E self \in Instances, op \in Operations :
       \E args \in ArgTuples(op) :
          lastCall' = [self |-> self, op |-> op, args |-> args,
                       outcome |-> EsDialect(op, args)]

NextDialect ==
    Invoke /\ UNCHANGED addVars /\ UNCHANGED nodesVars

(***************************************************************************)
(* DbTreeDataProvider: shared vocabulary                                   *)
(***************************************************************************)
MaxEntries == 2        \* entries held by the two stores together
MaxChildren == 2       \* length of a child list

\* CacheKey members named by the provider.
NOSQL_CONNECTION == "NOSQL_CONNECTION"
ConectionsKey == "ConectionsKey"
CacheKeys == {NOSQL_CONNECTION, ConectionsKey}

\* DatabaseType members; the provider names ES, REDIS and SSH, every other
\* member is a relational backend (MySQL stands for them).
DatabaseType == {"MySQL", "ES", "REDIS", "SSH"}
\* dbType is read from stored JSON, so it may hold a value that is no member.
DbTypes == DatabaseType \cup {"Future_Unlisted"}

\* JavaScript values of the flags isGlobal and global.
Flags == {"undefined", "null", "true", "false"}

\* The two Memento stores of the extension context.
workspaceState == "workspaceState"
globalState == "globalState"

\* x === false ? this.context.workspaceState : this.context.globalState
ContextFor(flag) == IF flag = "false" THEN workspaceState ELSE globalState

(***************************************************************************)
(* addConnection                                                           *)
(***************************************************************************)
Nodes == [dbType : DbTypes, isGlobal : Flags, global : Flags, context : {None}]

NoNode == [dbType |-> None, isGlobal |-> "undefined", global |-> "undefined",
           context |-> None]

\* node.indent({command, cacheKey}) as issued on a node whose context is ctx;
\* settled tells whether the promise indent returned has resolved.
IndentCommand(command, cacheKey, ctx) ==
    [command |-> command, cacheKey |-> cacheKey, context |-> ctx, settled |-> FALSE]

\* getKeyByNode with the SSH comparison left out.
getKeyByNodeNoSsh(connectionNode) ==
    IF connectionNode.dbType \in {"ES", "REDIS"}
    THEN NOSQL_CONNECTION
    ELSE ConectionsKey

\* getKeyByNode(connectionNode)
getKeyByNode(connectionNode) ==
    IF connectionNode.dbType \in {"ES", "REDIS", "SSH"}
    THEN NOSQL_CONNECTION
    ELSE ConectionsKey

\* The second half of addConnection: re-scope the node by node.global and
\* issue the add, which is not awaited.
IssueAdd(n) ==
    LET scoped == [n EXCEPT !.context = ContextFor(n.global)]
    IN  /\ node' = scoped
        /\ issued' = Append(issued, IndentCommand("add", getKeyByNode(scoped),
                                                  scoped.context))
        /\ pc' = "done"

\* addConnection(node) up to its first suspension.  initKey() only gives the
\* node its key.  With isGlobal set, the node is scoped by isGlobal and the
\* delete is issued and awaited; otherwise the call runs on to the add.
AddConnectionCall ==
    /\ pc = "idle"
    /\ \E n \in Nodes :
         IF n.isGlobal \notin {"null", "undefined"}
         THEN LET scoped == [n EXCEPT !.context = ContextFor(n.isGlobal)]
              IN  /\ node' = scoped
                  /\ issued' = Append(issued, IndentCommand("delete", connectionKey,
                                                            scoped.context))
                  /\ pc' = "awaitDelete"
         ELSE IssueAdd(n)
    /\ UNCHANGED connectionKey

\* The promise of an issued indent resolves.
IndentSettles ==
    /\ \E i \in DOMAIN issued :
         /\ ~issued[i].settled
         /\ issued' = [issued EXCEPT ![i].settled = TRUE]
    /\ UNCHANGED <<connectionKey, pc, node>>

\* addConnection resumes after `await node.indent({command: delete, ...})`.
AddConnectionResume ==
    /\ pc = "awaitDelete"
    /\ issued[Len(issued)].settled
    /\ IssueAdd(node)
    /\ UNCHANGED connectionKey

NextAdd ==
    \/ AddConnectionCall /\ UNCHANGED dialectVars /\ UNCHANGED nodesVars
    \/ IndentSettles /\ UNCHANGED dialectVars /\ UNCHANGED nodesVars
    \/ AddConnectionResume /\ UNCHANGED dialectVars /\ UNCHANGED nodesVars

(***************************************************************************)
(* getConnectionNodes, getNode, getChildren                                *)
(***************************************************************************)
\* Connection keys; integer-like, as the timestamps the extension uses.
Keys == {1, 2}
\* What a store holds per key: the saved connection description.
ConnectInfos == [dbType : DbTypes]

Elements == {"e1", "e2"}
Errors == {"ECONNREFUSED", "timeout"}
\* Nodes an element may hand back; each may already hang under some parent.
ChildIds == {"c1", "c2"}
ChildNodes == [id : ChildIds, parent : {None} \cup Elements]

RECURSIVE SeqsUpTo(_, _)
SeqsUpTo(S, n) ==
    IF n = 0 THEN {<<>>}
    ELSE LET shorter == SeqsUpTo(S, n - 1)
         IN  shorter \cup {Append(s, x) : s \in {t \in shorter : Len(t) = n - 1}, x \in S}

\* How element.getChildren() may end: it returns a list or it throws.
ChildOutcomes ==
    {[kind |-> "returned", children |-> cs, error |-> None] :
        cs \in SeqsUpTo(ChildNodes, MaxChildren)}
    \cup {[kind |-> "threw", children |-> <<>>, error |-> e] : e \in Errors}

NoOutcome == [kind |-> None, children |-> <<>>, error |-> None]
NoResult == [status |-> None, value |-> <<>>, error |-> None]
NoTreeCall == [op |-> None, element |-> None, outcome |-> NoOutcome, built |-> <<>>]

\* The spread with its operands swapped:
\* { ...workspaceConnections, ...globalConnections }
globalOverWorkspace(g, w) ==
    [key \in DOMAIN g \cup DOMAIN w |-> IF key \in DOMAIN g THEN g[key] ELSE w[key]]

\* { ...globalConnections, ...workspaceConnections }
connections(g, w) ==
    [key \in DOMAIN g \cup DOMAIN w |-> IF key \in DOMAIN w THEN w[key] ELSE g[key]]

\* Object.keys(connections): integer-like keys come in ascending order.
RECURSIVE ObjectKeys(_)
ObjectKeys(S) ==
    IF S = {} THEN <<>>
    ELSE LET least == CHOOSE k \in S : \A other \in S : k <= other
         IN  <<least>> \o ObjectKeys(S \ {least})

\* getNode(connectInfo, key).  The node classes are constructed outside this
\* file; builtGlobal is the value of node.global their constructor leaves.
getNode(connectInfo, key, builtGlobal) ==
    LET class == IF connectInfo.dbType = "ES" THEN "EsConnectionNode"
                 ELSE IF connectInfo.dbType = "REDIS" THEN "RedisConnectionNode"
                 ELSE IF connectInfo.dbType = "SSH" THEN "SSHConnectionNode"
                 ELSE "ConnectionNode"
        global == IF builtGlobal # "false" THEN "true" ELSE builtGlobal
    IN  [class |-> class, key |-> key, connectInfo |-> connectInfo,
         provider |-> "this", global |-> global,
         context |-> ContextFor(global)]

\* getConnectionNodes(); built[key] is what the constructor run for key leaves
\* in node.global.
getConnectionNodes(g, w, built) ==
    LET merged == connections(g, w)
        keys == ObjectKeys(DOMAIN merged)
    IN  [i \in 1..Len(keys) |-> getNode(merged[keys[i]], keys[i], built[keys[i]])]

\* How an async method settles.
Resolved(value) == [status |-> "resolved", value |-> value, error |-> None]
Rejected(error) == [status |-> "rejected", value |-> <<>>, error |-> error]

InfoNode(error) == [class |-> "InfoNode", error |-> error]

\* getChildren without its try/catch: a throw of element.getChildren()
\* rejects the returned promise.
getChildrenNoCatch(element, outcome, connectionNodes) ==
    IF element = None
    THEN Resolved(connectionNodes)
    ELSE IF outcome.kind = "returned"
         THEN Resolved([i \in DOMAIN outcome.children |->
                          [outcome.children[i] EXCEPT !.parent = element]])
         ELSE Rejected(outcome.error)

\* getChildren(element); outcome is how element.getChildren() ends and
\* connectionNodes is what getConnectionNodes() resolves to.
getChildren(element, outcome, connectionNodes) ==
    IF element = None
    THEN Resolved(connectionNodes)
    ELSE IF outcome.kind = "returned"
         THEN Resolved([i \in DOMAIN outcome.children |->
                          [outcome.children[i] EXCEPT !.parent = element]])
         ELSE Resolved(<<InfoNode(outcome.error)>>)

\* A caller asks the provider for its connection nodes.
GetConnectionNodes ==
    /\ call = NoTreeCall
    /\ \E built \in [DOMAIN connections(globalConnections, workspaceConnections) -> Flags] :
         /\ call' = [NoTreeCall EXCEPT !.op = "getConnectionNodes", !.built = built]
         /\ result' = Resolved(getConnectionNodes(globalConnections,
                                   workspaceConnections, built))
    /\ UNCHANGED <<globalConnections, workspaceConnections>>

\* The tree view asks for the roots: getChildren(undefined).
GetChildrenOfRoot ==
    /\ call = NoTreeCall
    /\ \E built \in [DOMAIN connections(globalConnections, workspaceConnections) -> Flags] :
         /\ call' = [NoTreeCall EXCEPT !.op = "getChildren", !.built = built]
         /\ result' = getChildren(None, NoOutcome,
                          getConnectionNodes(globalConnections, workspaceConnections, built))
    /\ UNCHANGED <<globalConnections, workspaceConnections>>

\* The tree view expands an element: getChildren(element).
GetChildrenOfElement ==
    /\ call = NoTreeCall
    /\ \E element \in Elements, outcome \in ChildOutcomes :
         /\ call' = [NoTreeCall EXCEPT !.op = "getChildren", !.element = element,
                                       !.outcome = outcome]
         /\ result' = getChildren(element, outcome, <<>>)
    /\ UNCHANGED <<globalConnections, workspaceConnections>>

\* The caller takes the result; the provider is ready for the next request.
Deliver ==
    /\ call # NoTreeCall
    /\ call' = NoTreeCall
    /\ result' = NoResult
    /\ UNCHANGED <<globalConnections, workspaceConnections>>

NextNodes ==
    \/ GetConnectionNodes /\ UNCHANGED dialectVars /\ UNCHANGED addVars
    \/ GetChildrenOfRoot /\ UNCHANGED dialectVars /\ UNCHANGED addVars
    \/ GetChildrenOfElement /\ UNCHANGED dialectVars /\ UNCHANGED addVars
    \/ Deliver /\ UNCHANGED dialectVars /\ UNCHANGED addVars

(***************************************************************************)
(* Specifications                                                          *)
(***************************************************************************)
\* No dialect method has been called; the tree provider is not exercised.
InitDialect ==
    /\ lastCall = NoCall
    /\ connectionKey = ConectionsKey
    /\ pc = "idle"
    /\ node = NoNode
    /\ issued = <<>>
    /\ globalConnections = <<>>
    /\ workspaceConnections = <<>>
    /\ call = NoTreeCall
    /\ result = NoResult

\* A provider constructed for either cache key; nothing else is exercised.
InitAdd ==
    /\ connectionKey \in CacheKeys
    /\ pc = "idle"
    /\ node = NoNode
    /\ issued = <<>>
    /\ lastCall = NoCall
    /\ globalConnections = <<>>
    /\ workspaceConnections = <<>>
    /\ call = NoTreeCall
    /\ result = NoResult

\* The two stores hold any entries within the bounds; nothing was asked yet.
InitNodes ==
    /\ \E gk \in SUBSET Keys, wk \in SUBSET Keys :
         /\ Cardinality(gk) + Cardinality(wk) <= MaxEntries
         /\ globalConnections \in [gk -> ConnectInfos]
         /\ workspaceConnections \in [wk -> ConnectInfos]
    /\ call = NoTreeCall
    /\ result = NoResult
    /\ lastCall = NoCall
    /\ connectionKey = ConectionsKey
    /\ pc = "idle"
    /\ node = NoNode
    /\ issued = <<>>

SpecDialect == InitDialect /\ [][NextDialect]_vars
SpecAdd == InitAdd /\ [][NextAdd]_vars
SpecNodes == InitNodes /\ [][NextNodes]_vars

(***************************************************************************)
(* Properties of EsDialect (checked under SpecDialect)                     *)
(***************************************************************************)
Called == lastCall.op # None

\* Operations the document store has no concept for.
CatalogOps ==
    {"showTriggers", "showTableSource", "showViewSource", "showProcedureSource",
     "showFunctionSource", "showTriggerSource"}

\* The database / table name parameters of an operation.
RequiredNames == {"database", "table", "tableName"}

\* The row offset a generated statement carries: the token after OFFSET,
\* -1 when the text has no such clause.
OffsetOf(text) ==
    IF \E j \in 1..(Len(text) - 1) : text[j] = "OFFSET"
    THEN text[(CHOOSE j \in 1..(Len(text) - 1) : text[j] = "OFFSET") + 1]
    ELSE 0 - 1

\* C1: no operation of EsDialect ever throws; every call, variableList,
\* statusList and processList included, ends by returning a result value.
C1_NoOperationThrows ==
    Called => lastCall.outcome.kind # "Thrown"

\* C2: showTriggers and the five show-source operations of EsDialect return
\* an explicit Unsupported result for every argument, never an empty string.
C2_CatalogOpsAreUnsupported ==
    (Called /\ lastCall.op \in CatalogOps) =>
        /\ lastCall.outcome.kind = "Unsupported"
        /\ ~(lastCall.outcome.kind = "Generated" /\ lastCall.outcome.text = EmptyString)

\* C4: buildPageSql with page size p > 0 generates a statement whose offset is
\* i * p for a page index i >= 0, and with p <= 0 it returns InvalidRequest.
C4_PageArithmetic ==
    (Called /\ lastCall.op = "buildPageSql") =>
        LET p == lastCall.args.pageSize
        IN  /\ p <= 0 => lastCall.outcome.kind = "InvalidRequest"
            /\ p > 0 =>
                 /\ lastCall.outcome.kind = "Generated"
                 /\ \E i \in 0..MaxPageIndex : OffsetOf(lastCall.outcome.text) = i * p

\* C5: buildPageSql of EsDialect with a non-empty database, a non-empty table
\* and a page size > 0 returns a Generated result with a non-empty payload.
C5_CursorRequestGenerated ==
    (/\ Called
     /\ lastCall.op = "buildPageSql"
     /\ lastCall.args.database # ""
     /\ lastCall.args.table # ""
     /\ lastCall.args.pageSize > 0) =>
        /\ lastCall.outcome.kind = "Generated"
        /\ lastCall.outcome.text # EmptyString

\* C6: an operation called with an empty database or table name returns
\* InvalidRequest; it never hands back a generated string.
C6_EmptyNameIsInvalidRequest ==
    (Called /\ \E f \in RequiredNames \cap DOMAIN lastCall.args : lastCall.args[f] = "") =>
        lastCall.outcome.kind = "InvalidRequest"

(***************************************************************************)
(* Properties of addConnection (checked under SpecAdd)                     *)
(***************************************************************************)
Deletes == {i \in DOMAIN issued : issued[i].command = "delete"}
Adds == {i \in DOMAIN issued : issued[i].command = "add"}
IsGlobalSet == node.isGlobal \notin {"null", "undefined"}
ExpectedAddKey ==
    IF node.dbType = "ES" \/ node.dbType = "REDIS" \/ node.dbType = "SSH"
    THEN NOSQL_CONNECTION
    ELSE ConectionsKey

\* A delete is issued exactly when isGlobal is set: one delete, first, in the
\* scope isGlobal chooses, under the provider's connectionKey.
DeleteAsClaimed ==
    pc # "idle" =>
        IF IsGlobalSet
        THEN /\ Deletes = {1}
             /\ issued[1].cacheKey = connectionKey
             /\ issued[1].context = (IF node.isGlobal = "false" THEN workspaceState
                                     ELSE globalState)
        ELSE Deletes = {}

\* The delete has completed before the add is issued.
DeleteBeforeAdd ==
    \A a \in Adds : \A d \in Deletes : d < a /\ issued[d].settled

\* Every call issues exactly one add, scoped by node.global, keyed by dbType.
AddAsClaimed ==
    /\ pc # "done" => Adds = {}
    /\ pc = "done" =>
         /\ Cardinality(Adds) = 1
         /\ \A a \in Adds :
              /\ issued[a].cacheKey = ExpectedAddKey
              /\ issued[a].context = (IF node.global = "false" THEN workspaceState
                                      ELSE globalState)

MovedBetweenKeys ==
    \E d \in Deletes : \E a \in Adds : issued[d].cacheKey # issued[a].cacheKey

StoredKeys == DOMAIN globalConnections \cup DOMAIN workspaceConnections

\* C3: resolving a backend kind that is not registered never selects the
\* relational default: no node is built for such a dbType.
C3_UnknownBackendFailsFast ==
    (call.op # None /\ call.element = None) =>
        \A i \in DOMAIN result.value :
            result.value[i].connectInfo.dbType \in DatabaseType

\* C9: getConnectionNodes returns exactly one node per distinct key of the two
\* stores, built from the workspace entry where both hold the key; each node
\* has provider = this, global = true unless its global was exactly false, and
\* context = workspaceState iff global === false, globalState otherwise.
C9_ConnectionNodes ==
    call.op = "getConnectionNodes" =>
        /\ result.status = "resolved"
        /\ Len(result.value) = Cardinality(StoredKeys)
        /\ \A key \in StoredKeys :
             Cardinality({i \in DOMAIN result.value : result.value[i].key = key}) = 1
        /\ \A i \in DOMAIN result.value :
             LET n == result.value[i]
             IN  /\ n.key \in StoredKeys
                 /\ n.connectInfo = (IF n.key \in DOMAIN workspaceConnections
                                     THEN workspaceConnections[n.key]
                                     ELSE globalConnections[n.key])
                 /\ n.provider = "this"
                 /\ n.global = (IF call.built[n.key] = "false" THEN "false" ELSE "true")
                 /\ n.context = (IF n.global = "false" THEN workspaceState
                                 ELSE globalState)

\* A key held by both stores with different entries, whose node was built
\* without a global flag: it carries the workspace entry and the global scope.
C9_Witness ==
    /\ call.op = "getConnectionNodes"
    /\ \E key \in DOMAIN globalConnections \cap DOMAIN workspaceConnections :
         /\ globalConnections[key] # workspaceConnections[key]
         /\ call.built[key] = "undefined"
         /\ \E i \in DOMAIN result.value :
              /\ result.value[i].key = key
              /\ result.value[i].connectInfo = workspaceConnections[key]
              /\ result.value[i].context = globalState

\* C10: getChildren(element) never propagates a failure of
\* element.getChildren(): a throw gives exactly one InfoNode carrying the
\* error, a return gives the returned list with every parent set to element;
\* without element the result is that of getConnectionNodes, no parent set.
C10_GetChildren ==
    call.op = "getChildren" =>
        /\ result.status = "resolved"
        /\ (call.element # None /\ call.outcome.kind = "threw") =>
             /\ Len(result.value) = 1
             /\ result.value[1].class = "InfoNode"
             /\ result.value[1].error = call.outcome.error
        /\ (call.element # None /\ call.outcome.kind = "returned") =>
             /\ Len(result.value) = Len(call.outcome.children)
             /\ \A i \in DOMAIN result.value :
                  /\ result.value[i].id = call.outcome.children[i].id
                  /\ result.value[i].parent = call.element
        /\ call.element = None =>
             /\ result.value = getConnectionNodes(globalConnections,
                                                  workspaceConnections, call.built)
             /\ \A i \in DOMAIN result.value : "parent" \notin DOMAIN result.value[i]

\* element.getChildren() threw and the caller still got a one-node list.
C10_Witness ==
    /\ call.op = "getChildren"
    /\ call.element = "e1"
    /\ call.outcome.kind = "threw"
    /\ call.outcome.error = "timeout"
    /\ result = Resolved(<<InfoNode("timeout")>>)

============================================================================
